---- MODULE Spec2Model ----
(***************************************************************************)
(* Debug Adapter Protocol client: crates/dap/src/client.rs                 *)
(*                                                                         *)
(* The client (DebugAdapterClient) is modelled from client.rs.  The        *)
(* Transport (crate::transport) is consumed by client.rs but its code is   *)
(* not part of the reviewed sources; its seq-keyed pending-request table   *)
(* and its two channel ends are modelled from the written specification    *)
(* (TransportStep, TransportClose).  The debug adapter is the environment. *)
(***************************************************************************)
EXTENDS Integers, Sequences, FiniteSets, TLC

\* ------------------------------------------------------------------ bounds
MaxCalls == 2        \* request() calls issued in one client lifetime
MaxResponses == 2    \* Responses the adapter writes
MaxEvents == 2       \* Events the adapter writes
MaxReverse == 1      \* adapter-initiated (reverse) Requests the adapter writes
MaxThread == 3       \* thread ids 1..MaxThread

\* ------------------------------------------------------------- vocabulary
NoValue == [kind |-> "None"]   \* empty completion-channel slot / no result yet
NoBody == "NoBody"       \* Response.body = None
NoMsg == "NoMsg"         \* Response.message = None
NoCaps == "None"         \* capabilities: None

\* The facade operations exercised by the request machinery, with the
\* protocol verb (R::COMMAND) each one sends.
Ops == {"initialize", "launch"}

\* Every request-sending method of the facade.
RuntimeOps == {"resume", "step_over", "step_in", "step_out", "step_back",
               "restart", "pause"}
FacadeOps == {"initialize", "launch", "attach", "set_breakpoints",
              "configuration_done"} \cup RuntimeOps

ThreadIds == 1..MaxThread

\* R::COMMAND of the request type each method names in request::<R>.
Command(op) ==
    CASE op = "initialize" -> "initialize"
      [] op = "launch" -> "launch"
      [] op = "attach" -> "attach"
      [] op = "set_breakpoints" -> "setBreakpoints"
      [] op = "configuration_done" -> "configurationDone"
      [] op = "resume" -> "continue"
      [] op = "step_over" -> "next"
      [] op = "step_in" -> "stepIn"
      [] op = "step_out" -> "stepOut"
      [] op = "step_back" -> "stepBack"
      [] op = "restart" -> "stepBack"
      [] op = "pause" -> "pause"

\* The arguments each method builds (a record holds exactly the fields the
\* method sets to a value; thread_id is the method's parameter).
Arguments_all_threads(op, thread_id) ==
    CASE op = "resume" -> [thread_id |-> thread_id, single_thread |-> "false"]
      [] op = "step_in" ->
            [thread_id |-> thread_id, granularity |-> "statement",
             single_thread |-> "false"]
      [] op \in {"step_over", "step_out", "step_back", "restart"} ->
            [thread_id |-> thread_id, granularity |-> "statement",
             single_thread |-> "false"]
      [] op = "pause" -> [thread_id |-> thread_id]
      [] op = "initialize" -> [client_id |-> "zed"]
      [] op \in {"launch", "attach"} -> [raw |-> "args"]
      [] op = "set_breakpoints" -> [source |-> "path"]
      [] op = "configuration_done" -> [unit |-> "unit"]

Arguments(op, thread_id) ==
    CASE op = "resume" -> [thread_id |-> thread_id, single_thread |-> "true"]
      [] op = "step_in" ->
            [thread_id |-> thread_id, granularity |-> "statement",
             single_thread |-> "true"]
      [] op \in {"step_over", "step_out", "step_back", "restart"} ->
            [thread_id |-> thread_id, granularity |-> "statement",
             single_thread |-> "true"]
      [] op = "pause" -> [thread_id |-> thread_id]
      [] op = "initialize" -> [client_id |-> "zed"]
      [] op \in {"launch", "attach"} -> [raw |-> "args"]
      [] op = "set_breakpoints" -> [source |-> "path"]
      [] op = "configuration_done" -> [unit |-> "unit"]

\* The thread ids a method can be called with (0: the method takes none).
ThreadArgs(op) == IF op \in RuntimeOps THEN ThreadIds ELSE {0}

Bodies == {NoBody, "valid", "invalid"}
Messages == {NoMsg, "msg"}

\* What the adapter may put in a Response besides the correlation id.
RespShapes == [success : BOOLEAN, body : Bodies, message : Messages]

\* One successful and one failed Response, for the runs where several
\* requests are in flight and only the outcome kind matters.
PlainShapes == {[success |-> TRUE, body |-> "valid", message |-> NoMsg],
                [success |-> FALSE, body |-> NoBody, message |-> "msg"]}

VARIABLES
    request_count,   \* AtomicU64 request_count
    capabilities,    \* Option<Capabilities>
    calls,           \* the request() invocations, in the order they allocated
    server_tx,       \* queue behind the Transport's outbound sender
    server_rx,       \* queue behind the Transport's inbound receiver
    client_queue,    \* queue between client_tx (Router) and client_rx (event loop)
    pending,         \* Transport's pending-request table: seq -> back_ch (call index)
    transport_open,  \* the Transport's tasks are alive
    adapter_inbox,   \* seqs of the Requests written to the adapter
    n_responses, n_events, n_reverse,  \* how much the adapter has written
    router_pc,       \* handle_recv: "running" | "done"
    loop_pc,         \* handle_events: "idle" | "running" | "panicked" | "failed" | "done"
    handled,         \* Events passed to event_handler, in order
    arrived,         \* Events in the order the Transport decoded them (history)
    cx_alive,        \* the host application context still exists
    thread_states,   \* HashMap<u64, ThreadState>
    lookup,          \* outcome of the last thread_state_by_id: "none" | "ok" | "panic"
    boot_pc,         \* DebugAdapterClient::new: "new" | "tcp_spawned" | "tcp_waited" |
                     \*   "spawn_failed" | "connect_failed" | "ready" | "dropped"
    process,         \* the adapter process: "none" | "running" | "killed"
    connect_attempts, \* TcpStream::connect calls made
    undelivered      \* Events and adapter Requests the Router could not hand over (logged)

coreVars == <<request_count, capabilities, calls, server_tx, server_rx, client_queue,
              pending, transport_open, adapter_inbox, n_responses, n_events,
              n_reverse, router_pc, loop_pc, handled, arrived, cx_alive>>
threadVars == <<thread_states, lookup>>
bootVars == <<boot_pc, process, connect_attempts>>
vars == <<coreVars, threadVars, bootVars, undelivered>>

\* ------------------------------------------------------------------- Init
\* handle_transport: the state of a freshly constructed client (here one
\* created over stdio: the adapter process runs, no connect was needed).
Init ==
    /\ request_count = 0
    /\ capabilities = NoCaps
    /\ calls = <<>>
    /\ server_tx = <<>>
    /\ server_rx = <<>>
    /\ client_queue = <<>>
    /\ pending = <<>>
    /\ transport_open = TRUE
    /\ adapter_inbox = {}
    /\ n_responses = 0
    /\ n_events = 0
    /\ n_reverse = 0
    /\ router_pc = "running"
    /\ loop_pc = "idle"
    /\ handled = <<>>
    /\ arrived = <<>>
    /\ cx_alive = TRUE
    /\ thread_states = <<>>
    /\ lookup = "none"
    /\ boot_pc = "ready"
    /\ process = "running"
    /\ connect_attempts = 0
    /\ undelivered = 0

\* ---------------------------------------------------- Connection Bootstrap
\* The state before DebugAdapterClient::new has run: no process, no
\* Transport, no Router task.
InitBoot ==
    /\ request_count = 0
    /\ capabilities = NoCaps
    /\ calls = <<>>
    /\ server_tx = <<>>
    /\ server_rx = <<>>
    /\ client_queue = <<>>
    /\ pending = <<>>
    /\ transport_open = FALSE
    /\ adapter_inbox = {}
    /\ n_responses = 0
    /\ n_events = 0
    /\ n_reverse = 0
    /\ router_pc = "idle"
    /\ loop_pc = "idle"
    /\ handled = <<>>
    /\ arrived = <<>>
    /\ cx_alive = TRUE
    /\ thread_states = <<>>
    /\ lookup = "none"
    /\ boot_pc = "new"
    /\ process = "none"
    /\ connect_attempts = 0
    /\ undelivered = 0

\* Dropping the Child handle: the commands are built with kill_on_drop(true),
\* so a running adapter process is killed.
DropChild_leak(proc) == proc

DropChild(proc) == IF proc = "running" THEN "killed" ELSE proc

\* handle_transport: the Transport is started, the client is built and the
\* Router task is spawned.
HandleTransport ==
    /\ transport_open' = TRUE
    /\ router_pc' = "running"
    /\ boot_pc' = "ready"

\* new -> create_tcp_client / create_stdio_client, up to the first await:
\* command.spawn()? fails, or the process runs; over stdio the streams are
\* handed to handle_transport at once.
BootSpawn(connection, spawned) ==
    /\ boot_pc = "new"
    /\ IF ~spawned
         THEN /\ boot_pc' = "spawn_failed"
              /\ UNCHANGED <<process, transport_open, router_pc>>
         ELSE /\ process' = "running"
              /\ IF connection = "STDIO"
                   THEN HandleTransport
                   ELSE /\ boot_pc' = "tcp_spawned"
                        /\ UNCHANGED <<transport_open, router_pc>>
    /\ UNCHANGED <<request_count, capabilities, calls, server_tx, server_rx,
                   client_queue, pending, adapter_inbox, n_responses, n_events,
                   n_reverse, loop_pc, handled, arrived, cx_alive, threadVars,
                   connect_attempts, undelivered>>

\* create_tcp_client: the timer of the fixed startup delay has fired.
BootTimer ==
    /\ boot_pc = "tcp_spawned"
    /\ boot_pc' = "tcp_waited"
    /\ UNCHANGED <<coreVars, threadVars, process, connect_attempts, undelivered>>

\* create_tcp_client: `TcpStream::connect(address).await?` -- one attempt; on
\* failure `?` returns the error and the local `process` is dropped.
BootConnect(connected) ==
    /\ boot_pc = "tcp_waited"
    /\ connect_attempts' = connect_attempts + 1
    /\ IF connected
         THEN /\ HandleTransport
              /\ UNCHANGED process
         ELSE /\ boot_pc' = "connect_failed"
              /\ process' = DropChild(process)
              /\ UNCHANGED <<transport_open, router_pc>>
    /\ UNCHANGED <<request_count, capabilities, calls, server_tx, server_rx,
                   client_queue, pending, adapter_inbox, n_responses, n_events,
                   n_reverse, loop_pc, handled, arrived, cx_alive, threadVars,
                   undelivered>>

\* ------------------------------------------------------------ Payloads
RequestPayload_shared_channel(seq, command, arguments, back_ch) ==
    [kind |-> "Request", seq |-> seq, command |-> command,
     arguments |-> arguments, back_ch |-> 1]

RequestPayload(seq, command, arguments, back_ch) ==
    [kind |-> "Request", seq |-> seq, command |-> command,
     arguments |-> arguments, back_ch |-> back_ch]

\* back_ch = 0: an adapter-initiated Request carries no completion channel.
ReversePayload(n) ==
    [kind |-> "Request", seq |-> n, command |-> "runInTerminal", back_ch |-> 0]

EventPayload(n) == [kind |-> "Event", id |-> n]

ResponsePayload(id, request_seq, shape) ==
    [kind |-> "Response", id |-> id, request_seq |-> request_seq,
     success |-> shape.success, body |-> shape.body, message |-> shape.message]

\* An unbounded mpsc channel: send puts the payload behind everything queued.
Send_front(queue, p) == <<p>> \o queue

Send(queue, p) == Append(queue, p)

\* ---------------------------------------------------- Request Correlator
\* next_request_id: fetch_add(1) returns the previous value and stores the
\* successor.  (The counter is a u64; MaxCalls keeps it far below 2^64.)
next_request_id_load(count) == [seq |-> count, count |-> count]

next_request_id(count) == [seq |-> count, count |-> count + 1]

Ok(value, rid) == [ok |-> TRUE, value |-> value, rid |-> rid]
Err(text, rid) == [ok |-> FALSE, err |-> text, rid |-> rid]

\* serde_json::from_value(response.body.unwrap_or_default()): an absent body
\* is decoded from the default JSON value, a body of the wrong shape fails.
Decode(body, rid) ==
    CASE body = NoBody -> Ok("default", rid)
      [] body = "valid" -> Ok("decoded", rid)
      [] body = "invalid" -> Err("decode", rid)

\* `match response.success` at the end of request().
MatchSuccess_ignored(response) == Decode(response.body, response.id)

MatchSuccess(response) ==
    IF response.success
        THEN Decode(response.body, response.id)
        ELSE Err("Request failed", response.id)

\* `callback_rx.next().await.ok_or(anyhow!("no response"))` followed by the
\* match: slot is the value the channel yields, NoValue when it yields None
\* because every sender is gone.
RequestResult_success_on_close(slot) ==
    IF slot = NoValue THEN Ok("default", 0) ELSE MatchSuccess(slot)

RequestResult(slot) ==
    IF slot = NoValue THEN Err("no response", 0) ELSE MatchSuccess(slot)

CallIds == 1..Len(calls)
InFlight(c) == calls[c].pc \in {"send", "wait"}

\* The completion channel's Sender (back_ch) travels inside the Request: it is
\* alive while the Request is queued for the Transport or held by its table.
SenderAlive(c) ==
    \/ \E i \in 1..Len(server_tx) :
          server_tx[i].kind = "Request" /\ server_tx[i].back_ch = c
    \/ \E s \in DOMAIN pending : pending[s] = c

\* A facade method calling request(), up to the first suspension: the
\* arguments are built, the channel is created and the seq allocated.  The
\* client exists.  `initialize` borrows the client mutably, so it starts only when
\* no other call is in flight, and nothing starts while it is in flight.
RequestAlloc(op) ==
    /\ Len(calls) < MaxCalls
    /\ \A c \in CallIds : InFlight(c) => (op # "initialize" /\ calls[c].op # "initialize")
    /\ boot_pc = "ready"
    /\ \E t \in ThreadArgs(op) :
         LET id == next_request_id(request_count) IN
         /\ request_count' = id.count
         /\ calls' = Append(calls, [op |-> op, thread_id |-> t, pc |-> "send",
                                    seq |-> id.seq, arguments |-> Arguments(op, t),
                                    slot |-> NoValue, result |-> NoValue])
    /\ UNCHANGED <<capabilities, server_tx, server_rx, client_queue, pending,
                   transport_open, adapter_inbox, n_responses, n_events, n_reverse,
                   router_pc, loop_pc, handled, arrived, cx_alive, threadVars, bootVars,
                   undelivered>>

\* What the facade method does with request()'s result: initialize stores the
\* capabilities it decoded from a successful Response
\* (`self.capabilities = Some(capabilities.clone())`), every other method
\* stores nothing.
FacadeFinish(op, result) ==
    IF op = "initialize" /\ result.ok THEN result.value ELSE capabilities

\* `self.server_tx.clone().send(Payload::Request(request)).await?`
RequestSend(c) ==
    /\ calls[c].pc = "send"
    /\ IF transport_open
         THEN /\ server_tx' = Send(server_tx,
                     RequestPayload(calls[c].seq, Command(calls[c].op),
                                    calls[c].arguments, c))
              /\ calls' = [calls EXCEPT ![c].pc = "wait"]
              /\ UNCHANGED capabilities
         ELSE /\ calls' = [calls EXCEPT ![c].pc = "done", ![c].result = Err("send", 0)]
              /\ capabilities' = FacadeFinish(calls[c].op, Err("send", 0))
              /\ UNCHANGED server_tx
    /\ UNCHANGED <<request_count, server_rx, client_queue, pending,
                   transport_open, adapter_inbox, n_responses, n_events, n_reverse,
                   router_pc, loop_pc, handled, arrived, cx_alive, threadVars, bootVars,
                   undelivered>>

\* When `callback_rx.next().await` completes: the call's own channel holds a
\* value or has closed.  Nothing of any other call is consulted.
CanResume_in_order(c) ==
    /\ calls[c].slot # NoValue \/ ~SenderAlive(c)
    /\ \A d \in 1..(c - 1) : calls[d].pc # "wait"

CanResume(c) == calls[c].slot # NoValue \/ ~SenderAlive(c)

\* The caller is resumed at `callback_rx.next().await`: by a value, or by the
\* channel closing.
RequestRecv(c) ==
    /\ calls[c].pc = "wait"
    /\ CanResume(c)
    /\ LET result == RequestResult(calls[c].slot) IN
         /\ calls' = [calls EXCEPT ![c].pc = "done", ![c].result = result]
         /\ capabilities' = FacadeFinish(calls[c].op, result)
    /\ UNCHANGED <<request_count, server_tx, server_rx, client_queue, pending,
                   transport_open, adapter_inbox, n_responses, n_events, n_reverse,
                   router_pc, loop_pc, handled, arrived, cx_alive, threadVars, bootVars,
                   undelivered>>

\* The caller drops the request() future while it is suspended: callback_rx
\* is dropped with it, and request() has nothing that runs on drop.
RequestAbandon(c) ==
    /\ calls[c].pc = "wait"
    /\ calls' = [calls EXCEPT ![c].pc = "dropped", ![c].slot = NoValue]
    /\ UNCHANGED <<request_count, capabilities, server_tx, server_rx, client_queue,
                   pending, transport_open, adapter_inbox, n_responses, n_events,
                   n_reverse, router_pc, loop_pc, handled, arrived, cx_alive, threadVars, bootVars,
                   undelivered>>

\* ------------------------------------------------------------- Transport
Remove(f, k) == [x \in DOMAIN f \ {k} |-> f[x]]

\* The Transport takes the next payload from its outbound queue.  A Request is
\* entered in the pending-request table under its seq and written to the
\* adapter; a Response handed back by the Router resolves and removes the
\* table entry of its request_seq (the value is lost if the caller's receiver
\* is gone), and is dropped when the table has no such entry.
TransportStep ==
    /\ transport_open
    /\ server_tx # <<>>
    /\ LET p == Head(server_tx) IN
         /\ server_tx' = Tail(server_tx)
         /\ IF p.kind = "Request"
              THEN /\ pending' = (p.seq :> p.back_ch) @@ pending
                   /\ adapter_inbox' = adapter_inbox \cup {p.seq}
                   /\ UNCHANGED calls
              ELSE /\ UNCHANGED adapter_inbox
                   /\ IF p.request_seq \in DOMAIN pending
                        THEN /\ pending' = Remove(pending, p.request_seq)
                             /\ LET c == pending[p.request_seq] IN
                                  calls' = IF calls[c].pc = "wait"
                                             THEN [calls EXCEPT ![c].slot = p]
                                             ELSE calls
                        ELSE UNCHANGED <<pending, calls>>
    /\ UNCHANGED <<request_count, capabilities, server_rx, client_queue,
                   transport_open, n_responses, n_events, n_reverse,
                   router_pc, loop_pc, handled, arrived, cx_alive, threadVars, bootVars,
                   undelivered>>

\* The connection is lost: the Transport's tasks end, dropping its table (and
\* with it every completion Sender), its outbound queue and its inbound sender.
TransportClose ==
    /\ transport_open
    /\ transport_open' = FALSE
    /\ pending' = <<>>
    /\ server_tx' = <<>>
    /\ UNCHANGED <<request_count, capabilities, calls, server_rx, client_queue,
                   adapter_inbox, n_responses, n_events, n_reverse,
                   router_pc, loop_pc, handled, arrived, cx_alive, threadVars, bootVars,
                   undelivered>>

\* ---------------------------------------------------------------- adapter
\* The adapter answers a Request it has received, in any order and possibly
\* more than once; the Transport decodes the Response onto its inbound queue.
AdapterRespond(seq, shape) ==
    /\ transport_open
    /\ n_responses < MaxResponses
    /\ seq \in adapter_inbox
    /\ n_responses' = n_responses + 1
    /\ server_rx' = Append(server_rx, ResponsePayload(n_responses + 1, seq, shape))
    /\ UNCHANGED <<request_count, capabilities, calls, server_tx, client_queue, pending,
                   transport_open, adapter_inbox, n_events, n_reverse,
                   router_pc, loop_pc, handled, arrived, cx_alive, threadVars, bootVars,
                   undelivered>>

AdapterEvent ==
    /\ transport_open
    /\ n_events < MaxEvents
    /\ n_events' = n_events + 1
    /\ server_rx' = Append(server_rx, EventPayload(n_events + 1))
    /\ arrived' = Append(arrived, n_events + 1)
    /\ UNCHANGED <<request_count, capabilities, calls, server_tx, client_queue, pending,
                   transport_open, adapter_inbox, n_responses, n_reverse,
                   router_pc, loop_pc, handled, cx_alive, threadVars, bootVars,
                   undelivered>>

AdapterRequest ==
    /\ transport_open
    /\ n_reverse < MaxReverse
    /\ n_reverse' = n_reverse + 1
    /\ server_rx' = Append(server_rx, ReversePayload(n_reverse + 1))
    /\ UNCHANGED <<request_count, capabilities, calls, server_tx, client_queue, pending,
                   transport_open, adapter_inbox, n_responses, n_events,
                   router_pc, loop_pc, handled, arrived, cx_alive, threadVars, bootVars,
                   undelivered>>

\* ----------------------------------------------------------------- Router
\* The destination handle_recv's match picks for a payload.
RouteOf_all_to_client(p) == "client_tx"

RouteOf(p) == IF p.kind = "Response" THEN "server_tx" ELSE "client_tx"

\* `queue.next().await` on an unbounded channel: the next item when one is
\* queued; None once every Sender is gone and the queue is drained; otherwise
\* the task stays suspended.
ChannelNext_none_on_close(queue, closed) ==
    IF closed THEN "none" ELSE IF queue # <<>> THEN "item" ELSE "pending"

ChannelNext(queue, closed) ==
    IF queue # <<>> THEN "item" ELSE IF closed THEN "none" ELSE "pending"

\* The Transport drops the Sender of its inbound queue when the connection is
\* lost.
InboundClosed == ~transport_open

\* client_rx is a field of the client: the application-facing queue has a
\* consumer for as long as the client exists.
ClientRxAlive == boot_pc # "dropped"

\* `.await.log_err()`: the outcome of a forward is logged and discarded; the
\* loop goes on to the next payload.
AfterSend_stop_on_error(sent) == IF sent THEN "running" ELSE "done"

AfterSend(sent) == "running"

\* One turn of handle_recv's loop: the next payload is sent to its
\* destination (a send to a closed channel fails and is only logged); when
\* the inbound queue is closed and drained the task returns, dropping client_tx.
HandleRecv ==
    /\ router_pc = "running"
    /\ ChannelNext(server_rx, InboundClosed) # "pending"
    /\ IF ChannelNext(server_rx, InboundClosed) = "item"
         THEN LET p == Head(server_rx)
                  sent == IF RouteOf(p) = "server_tx" THEN transport_open
                                                      ELSE ClientRxAlive IN
                /\ server_rx' = Tail(server_rx)
                /\ IF RouteOf(p) = "server_tx"
                     THEN /\ server_tx' = IF sent THEN Send(server_tx, p) ELSE server_tx
                          /\ UNCHANGED client_queue
                     ELSE /\ client_queue' = IF sent THEN Send(client_queue, p)
                                                     ELSE client_queue
                          /\ UNCHANGED server_tx
                /\ undelivered' = IF RouteOf(p) = "client_tx" /\ ~sent
                                     THEN undelivered + 1 ELSE undelivered
                /\ router_pc' = AfterSend(sent)
         ELSE /\ router_pc' = "done"
              /\ UNCHANGED <<server_rx, server_tx, client_queue, undelivered>>
    /\ UNCHANGED <<request_count, capabilities, calls, pending,
                   transport_open, adapter_inbox, n_responses, n_events, n_reverse,
                   loop_pc, handled, arrived, cx_alive, threadVars, bootVars>>

\* --------------------------------------------------------------- Event Loop
\* handle_events is called with an Arc of the client.
HandleEventsStart ==
    /\ boot_pc = "ready"
    /\ loop_pc = "idle"
    /\ loop_pc' = "running"
    /\ UNCHANGED <<request_count, capabilities, calls, server_tx, server_rx,
                   client_queue, pending, transport_open, adapter_inbox, n_responses,
                   n_events, n_reverse, router_pc, handled, arrived, cx_alive,
                   threadVars, bootVars, undelivered>>

\* What one turn of the loop does with the payload it took: cx.update fails
\* without running the closure when the application is gone (`?` returns the
\* error); otherwise the closure hands an Event to event_handler and hits
\* unreachable!() on anything else.
DispatchOf_drop_non_event(p, alive) ==
    IF ~alive THEN "failed" ELSE IF p.kind = "Event" THEN "handle" ELSE "skip"

DispatchOf(p, alive) ==
    IF ~alive THEN "failed" ELSE IF p.kind = "Event" THEN "handle" ELSE "panicked"

\* One turn of handle_events' loop; the queue is closed once the Router task
\* has returned and dropped client_tx.
HandleEvents ==
    /\ loop_pc = "running"
    /\ ChannelNext(client_queue, router_pc = "done") # "pending"
    /\ IF ChannelNext(client_queue, router_pc = "done") = "item"
         THEN LET p == Head(client_queue)
                  d == DispatchOf(p, cx_alive) IN
                /\ client_queue' = Tail(client_queue)
                /\ handled' = IF d = "handle" THEN Append(handled, p.id) ELSE handled
                /\ loop_pc' = IF d \in {"handle", "skip"} THEN "running" ELSE d
         ELSE /\ loop_pc' = "done"
              /\ UNCHANGED <<client_queue, handled>>
    /\ UNCHANGED <<request_count, capabilities, calls, server_tx, server_rx,
                   pending, transport_open, adapter_inbox, n_responses,
                   n_events, n_reverse, router_pc, arrived, cx_alive, threadVars, bootVars,
                   undelivered>>

\* The host application goes away.
AppDrop ==
    /\ cx_alive
    /\ cx_alive' = FALSE
    /\ UNCHANGED <<request_count, capabilities, calls, server_tx, server_rx,
                   client_queue, pending, transport_open, adapter_inbox, n_responses,
                   n_events, n_reverse, router_pc, loop_pc, handled, arrived,
                   threadVars, bootVars, undelivered>>

\* The last owner drops the client: no request() borrows it and no
\* handle_events loop holds it.  Its fields go with it: client_rx with what it
\* holds, and the Child, which kills the adapter process.  The Router task is
\* detached and keeps its own Senders.
ClientDrop ==
    /\ boot_pc = "ready"
    /\ \A c \in CallIds : ~InFlight(c)
    /\ loop_pc # "running"
    /\ boot_pc' = "dropped"
    /\ process' = DropChild(process)
    /\ client_queue' = <<>>
    /\ UNCHANGED <<request_count, capabilities, calls, server_tx, server_rx,
                   pending, transport_open, adapter_inbox, n_responses,
                   n_events, n_reverse, router_pc, loop_pc, handled, arrived,
                   cx_alive, threadVars, connect_attempts, undelivered>>

\* ------------------------------------------------------ thread states
ThreadStatus == {"Running", "Stopped", "Ended"}

\* ThreadState::default()
DefaultThreadState ==
    [status |-> "Running", stack_frames |-> <<>>, scopes |-> <<>>,
     variables |-> <<>>, current_stack_frame_id |-> 0]

Crashed == lookup = "panic"

\* thread_states(): the caller holds the guard and enters a fresh entry ...
ThreadStatesInsert(t) ==
    /\ ~Crashed
    /\ t \notin DOMAIN thread_states
    /\ thread_states' = (t :> DefaultThreadState) @@ thread_states
    /\ UNCHANGED <<coreVars, bootVars, undelivered, lookup>>

\* ... or records the frames of a stopped thread in an entry.
ThreadStatesSetFrames(t) ==
    /\ ~Crashed
    /\ t \in DOMAIN thread_states
    /\ thread_states[t].stack_frames = <<>>
    /\ thread_states' = [thread_states EXCEPT ![t].stack_frames = <<1>>,
                                              ![t].scopes = (1 :> <<"Locals">>),
                                              ![t].variables = (1 :> <<"x">>),
                                              ![t].current_stack_frame_id = 1]
    /\ UNCHANGED <<coreVars, bootVars, undelivered, lookup>>

\* update_thread_state_status: `if let Some(thread_state) = ...get_mut(..)`
update_thread_state_status_upsert(map, t, status) ==
    IF t \in DOMAIN map
      THEN [map EXCEPT ![t].status = status]
      ELSE (t :> [DefaultThreadState EXCEPT !.status = status]) @@ map

update_thread_state_status(map, t, status) ==
    IF t \in DOMAIN map THEN [map EXCEPT ![t].status = status] ELSE map

UpdateThreadStateStatus(t, status) ==
    /\ ~Crashed
    /\ thread_states' = update_thread_state_status(thread_states, t, status)
    /\ UNCHANGED <<coreVars, bootVars, undelivered, lookup>>

\* thread_state_by_id: `.get(&thread_id).cloned().unwrap()` -- unwrap panics
\* on None.
thread_state_by_id(map, t) == IF t \in DOMAIN map THEN "ok" ELSE "panic"

ThreadStateById(t) ==
    /\ ~Crashed
    /\ lookup' = thread_state_by_id(thread_states, t)
    /\ UNCHANGED <<coreVars, bootVars, undelivered, thread_states>>

\* ------------------------------------------------------- specifications
\* Spec: the request path.  Concurrent request() calls, the Transport's table,
\* the adapter's Responses in any order, the Router relaying them, connection
\* loss.
Next ==
    \/ \E op \in Ops : RequestAlloc(op)
    \/ \E c \in CallIds : RequestSend(c)
    \/ \E c \in CallIds : RequestRecv(c)
    \/ \E c \in CallIds : RequestAbandon(c)
    \/ TransportStep
    \/ TransportClose
    \/ \E seq \in adapter_inbox, shape \in PlainShapes : AdapterRespond(seq, shape)
    \/ HandleRecv

Spec == Init /\ [][Next]_vars

\* SpecResult: one request() call at a time is answered with every shape of
\* Response the adapter can write.
NextResult ==
    \/ \E op \in Ops : (\A c \in CallIds : ~InFlight(c)) /\ RequestAlloc(op)
    \/ \E c \in CallIds : RequestSend(c)
    \/ \E c \in CallIds : RequestRecv(c)
    \/ TransportStep
    \/ \E seq \in adapter_inbox, shape \in RespShapes : AdapterRespond(seq, shape)
    \/ HandleRecv

SpecResult == Init /\ [][NextResult]_vars

\* SpecEvents: the event path.  The adapter's Events and reverse Requests, the
\* Router, the event loop and the host application, interleaved with one
\* request() call and its Responses.
NextEvents ==
    \/ \E op \in Ops : calls = <<>> /\ RequestAlloc(op)
    \/ \E c \in CallIds : RequestSend(c)
    \/ \E c \in CallIds : RequestRecv(c)
    \/ TransportStep
    \/ TransportClose
    \/ \E seq \in adapter_inbox, shape \in PlainShapes : AdapterRespond(seq, shape)
    \/ AdapterEvent
    \/ AdapterRequest
    \/ HandleRecv
    \/ HandleEventsStart
    \/ HandleEvents
    \/ AppDrop

SpecEvents == Init /\ [][NextEvents]_vars

\* SpecFacade: the facade methods, called in any order and concurrently as far
\* as the borrows allow; nothing is answered, so the Transport's outbound
\* queue shows every Request the methods have submitted.
NextFacade ==
    \/ \E op \in FacadeOps : RequestAlloc(op)
    \/ \E c \in CallIds : RequestSend(c)

SpecFacade == Init /\ [][NextFacade]_vars

\* SpecBoot: construction of the client over stdio or TCP, with spawn and
\* connect succeeding or failing, followed by the request path of the client
\* that was constructed.
NextBoot ==
    \/ \E connection \in {"TCP", "STDIO"}, spawned \in BOOLEAN :
          BootSpawn(connection, spawned)
    \/ BootTimer
    \/ \E connected \in BOOLEAN : BootConnect(connected)
    \/ (boot_pc = "ready" /\ Next)

SpecBoot == InitBoot /\ [][NextBoot]_vars

\* SpecTeardown: the client is dropped while the detached Router task goes on
\* relaying what the adapter had written, among it the answer to a call that
\* was abandoned or has returned.
NextTeardown ==
    \/ \E op \in Ops : calls = <<>> /\ RequestAlloc(op)
    \/ \E c \in CallIds : RequestSend(c)
    \/ \E c \in CallIds : RequestRecv(c)
    \/ \E c \in CallIds : RequestAbandon(c)
    \/ TransportStep
    \/ \E seq \in adapter_inbox, shape \in PlainShapes : AdapterRespond(seq, shape)
    \/ AdapterEvent
    \/ AdapterRequest
    \/ HandleRecv
    \/ ClientDrop

SpecTeardown == Init /\ [][NextTeardown]_vars

\* SpecShutdown: the event path up to and after the loss of the connection.
\* The Router and the event loop are tasks on the executor, which runs a task
\* that stays ready: weak fairness for their turns.
NextShutdown ==
    \/ AdapterEvent
    \/ AdapterRequest
    \/ TransportClose
    \/ HandleRecv
    \/ HandleEventsStart
    \/ HandleEvents
    \/ AppDrop

SpecShutdown ==
    Init /\ [][NextShutdown]_vars /\ WF_vars(HandleRecv) /\ WF_vars(HandleEvents)

\* SpecThreads: the thread-state cache, driven by its callers.
NextThreads ==
    \/ \E t \in ThreadIds : ThreadStatesInsert(t)
    \/ \E t \in ThreadIds : ThreadStatesSetFrames(t)
    \/ \E t \in ThreadIds, status \in ThreadStatus : UpdateThreadStateStatus(t, status)
    \/ \E t \in ThreadIds : ThreadStateById(t)

SpecThreads == Init /\ [][NextThreads]_vars

\* ================================================================ claims
Resolved(c) == calls[c].slot # NoValue
Done(c) == calls[c].pc = "done"
\* The call's Request reached the Transport's outbound queue.
Submitted(c) ==
    \/ calls[c].pc \in {"wait", "dropped"}
    \/ Done(c) /\ calls[c].result # Err("send", 0)

\* C1: every call that a Response resolves is resolved by a Response carrying
\* the seq that call allocated, a seq no other call holds, and no Response
\* resolves two calls -- whatever the number of calls in flight and the order
\* of the adapter's answers.
C1_ResponseMatchesSeq ==
    \A c \in CallIds : Resolved(c) =>
        /\ calls[c].slot.request_seq = calls[c].seq
        /\ \A d \in CallIds \ {c} :
              /\ calls[d].seq # calls[c].slot.request_seq
              /\ Resolved(d) => calls[d].slot.id # calls[c].slot.id

\* Two calls were in flight together and the adapter answered the later one
\* first; both are resolved.
C1_Witness ==
    /\ Len(calls) >= 2
    /\ Done(1) /\ Done(2) /\ Resolved(1) /\ Resolved(2)
    /\ calls[1].slot.id > calls[2].slot.id

\* C2: the seqs handed out are strictly increasing in allocation order (hence
\* never handed out twice), lie below the counter, and are the seqs the
\* submitted Requests carry -- also after calls whose submission failed.
C2_SeqStrictlyIncreasing ==
    /\ \A c, d \in CallIds : c < d => calls[c].seq < calls[d].seq
    /\ \A c \in CallIds : calls[c].seq < request_count
    /\ \A i \in 1..Len(server_tx) :
          server_tx[i].kind = "Request" =>
              server_tx[i].seq = calls[server_tx[i].back_ch].seq

\* A call whose submission failed is followed by another allocation.
C2_Witness ==
    \E c, d \in CallIds :
        /\ c < d
        /\ Done(c) /\ calls[c].result = Err("send", 0)
        /\ calls[d].seq > calls[c].seq

\* C3: a call resolved by a Response with success = false returns an error,
\* whatever the body of the Response.
C3_FailureNeverSuccess ==
    \A c \in CallIds :
        (Done(c) /\ Resolved(c) /\ ~calls[c].slot.success) => ~calls[c].result.ok

\* A failed Response with a well-formed body has resolved a call.
C3_Witness ==
    \E c \in CallIds :
        /\ Done(c) /\ Resolved(c)
        /\ ~calls[c].slot.success /\ calls[c].slot.body = "valid"

\* C4 (as claimed): once every call is resolved or abandoned and no Request is
\* waiting for the Transport, the pending-request table is back to empty.
C4_AbandonRemovesEntry ==
    ( /\ transport_open
      /\ \A c \in CallIds : calls[c].pc \in {"done", "dropped"}
      /\ \A i \in 1..Len(server_tx) : server_tx[i].kind # "Request" )
    => DOMAIN pending = {}

\* The ids of the Events in a queue, in queue order.
EventIds(queue) ==
    LET evs == SelectSeq(queue, LAMBDA p : p.kind = "Event")
    IN  [i \in 1..Len(evs) |-> evs[i].id]

\* C5: the Events handed to event_handler are the Events in arrival order:
\* always a prefix of the arrival sequence, and -- until the loop stops with
\* an error -- followed by exactly the Events still queued behind the Router
\* and behind the Transport, so none is reordered, duplicated or skipped.
C5_EventOrder ==
    /\ Len(handled) <= Len(arrived)
    /\ handled = SubSeq(arrived, 1, Len(handled))
    /\ loop_pc # "failed" =>
          handled \o EventIds(client_queue) \o EventIds(server_rx) = arrived

\* Two Events were handled and a request() call was resolved by a Response
\* that travelled the same inbound queue.
C5_Witness ==
    /\ handled = <<1, 2>>
    /\ \E c \in CallIds : Done(c) /\ Resolved(c)

\* C7: the step in which the event loop takes a payload that is not an Event
\* ends the loop abnormally -- unreachable!() panics, or cx.update has already
\* failed because the application is gone -- and does not invoke the handler.
C7_NonEventHardFailure ==
    [][ ( /\ loop_pc = "running"
          /\ client_queue # <<>>
          /\ Head(client_queue).kind # "Event"
          /\ client_queue' = Tail(client_queue) )
        => ( /\ loop_pc' = (IF cx_alive THEN "panicked" ELSE "failed")
             /\ handled' = handled ) ]_vars

\* The loop has panicked on a reverse Request after handling an Event.
C7_Witness ==
    /\ loop_pc = "panicked"
    /\ n_reverse >= 1
    /\ Len(handled) >= 1

\* C8: a call whose completion channel closed without a value returns an
\* error, the connection-lost error when its Request had been submitted; and a
\* suspended call whose channel has closed can always be resumed.
C8_ClosedChannelIsError ==
    \A c \in CallIds :
        /\ (Done(c) /\ ~Resolved(c)) =>
              /\ ~calls[c].result.ok
              /\ Submitted(c) => calls[c].result = Err("no response", 0)
        /\ (calls[c].pc = "wait" /\ ~Resolved(c) /\ ~SenderAlive(c)) =>
              ENABLED RequestRecv(c)

\* The connection was lost while a call was suspended, and the call has
\* returned the connection-lost error.
C8_Witness ==
    /\ ~transport_open
    /\ \E c \in CallIds : Done(c) /\ calls[c].result = Err("no response", 0)

\* C9 (as claimed): the error of a call resolved by a failed Response that
\* carries a message is that message.
C9_ErrorCarriesMessage ==
    \A c \in CallIds :
        (Done(c) /\ Resolved(c) /\ ~calls[c].slot.success /\ calls[c].slot.message # NoMsg)
        => (~calls[c].result.ok /\ calls[c].result.err = calls[c].slot.message)

\* C10 (as claimed): a launch Request is submitted only when initialize has
\* resolved successfully, i.e. when the capabilities are stored.
C10_LaunchOnlyWhenInitialized ==
    \A c \in CallIds :
        (calls[c].op = "launch" /\ Submitted(c)) => capabilities # NoCaps

\* C6 (as claimed): looking up a thread id never panics.
C6_LookupNeverPanics == lookup # "panic"

\* C11 (as claimed): at most one launch-or-attach Request is ever submitted in
\* a session.
C11_OneLaunchOrAttach ==
    Cardinality({c \in CallIds :
                    calls[c].op \in {"launch", "attach"} /\ Submitted(c)}) <= 1

\* C12 (as claimed): once capabilities are stored, no step changes them.
C12_CapabilitiesSetOnce ==
    [][capabilities # NoCaps => capabilities' = capabilities]_vars

\* C13: when the single connect attempt of a TCP client fails, construction
\* has ended with the error: the adapter process that was spawned is killed,
\* no second connect is made, no Transport, client or Router task exists, and
\* nothing further happens.
C13_ConnectFailureIsFatal ==
    boot_pc = "connect_failed" =>
        /\ process = "killed"
        /\ connect_attempts = 1
        /\ ~transport_open
        /\ router_pc = "idle"
        /\ calls = <<>>
        /\ ~ENABLED NextBoot

\* The connect failed after the process was spawned and the delay elapsed.
C13_Witness == boot_pc = "connect_failed" /\ connect_attempts = 1

\* The Requests submitted to the Transport and a field of their arguments
\* ("absent" when the arguments have no such field).
SentRequests == {i \in 1..Len(server_tx) : server_tx[i].kind = "Request"}
Field(arguments, f) == IF f \in DOMAIN arguments THEN arguments[f] ELSE "absent"
CallOf(i) == calls[server_tx[i].back_ch]
SteppingOps == {"step_over", "step_in", "step_out", "step_back", "restart"}

\* C14 (as claimed): the Request of every runtime control operation called
\* with thread id t carries thread id t, statement granularity and the
\* single-thread flag.
C14_AllCarryGranularityAndSingleThread ==
    \A i \in SentRequests :
        CallOf(i).op \in RuntimeOps =>
            /\ Field(server_tx[i].arguments, "thread_id") = CallOf(i).thread_id
            /\ Field(server_tx[i].arguments, "granularity") = "statement"
            /\ Field(server_tx[i].arguments, "single_thread") = "true"

\* C14 (amended): the Request of every runtime control operation called with
\* thread id t carries thread id t; the stepping operations (step_over,
\* step_in, step_out, step_back, restart) also carry statement granularity and
\* the single-thread flag; resume carries the single-thread flag and no
\* granularity; pause carries the thread id alone.
C14_RuntimeArguments ==
    \A i \in SentRequests :
        LET op == CallOf(i).op
            arguments == server_tx[i].arguments
        IN  op \in RuntimeOps =>
              /\ Field(arguments, "thread_id") = CallOf(i).thread_id
              /\ op \in SteppingOps =>
                    /\ Field(arguments, "granularity") = "statement"
                    /\ Field(arguments, "single_thread") = "true"
              /\ op = "resume" =>
                    /\ Field(arguments, "granularity") = "absent"
                    /\ Field(arguments, "single_thread") = "true"
              /\ op = "pause" =>
                    /\ Field(arguments, "granularity") = "absent"
                    /\ Field(arguments, "single_thread") = "absent"

\* A step and a pause, for two different threads, have both been submitted.
C14_Witness ==
    \E i, j \in SentRequests :
        /\ CallOf(i).op = "step_in" /\ CallOf(j).op = "pause"
        /\ CallOf(i).thread_id # CallOf(j).thread_id

\* C15: a suspended call whose Response has been delivered can always return,
\* whatever the state of the calls issued before it; its return leaves them
\* suspended.
C15_NoHeadOfLineBlocking ==
    \A b \in CallIds :
        (calls[b].pc = "wait" /\ Resolved(b)) => ENABLED RequestRecv(b)

\* Call A was issued before call B; B has returned with its Response while A,
\* never answered, is still suspended.
C15_Witness ==
    \E a, b \in CallIds :
        /\ a < b
        /\ calls[a].pc = "wait" /\ ~Resolved(a)
        /\ calls[a].seq \in adapter_inbox
        /\ Done(b) /\ Resolved(b) /\ calls[b].slot.request_seq = calls[b].seq

\* What a turn of the Router that takes a payload does with it.
C16_RouterStep ==
    ( /\ router_pc = "running"
      /\ server_rx # <<>>
      /\ server_rx' = Tail(server_rx) )
    => LET p == Head(server_rx) IN
         IF p.kind = "Response"
           THEN /\ client_queue' = client_queue
                /\ server_tx' = IF transport_open THEN Append(server_tx, p)
                                                  ELSE server_tx
           ELSE /\ server_tx' = server_tx
                /\ client_queue' = IF ClientRxAlive THEN Append(client_queue, p)
                                                    ELSE client_queue

\* C16: every payload the Router takes from the inbound queue goes to exactly
\* one destination picked by its kind.  An Event or an adapter-initiated
\* Request is appended unmodified to the application-facing queue and the
\* Transport's outbound queue is untouched; a Response is appended to the
\* Transport's outbound queue and the application-facing queue is untouched.
\* (A send to a closed channel fails and appends nothing anywhere.)  So the
\* application-facing queue never holds a Response, and the outbound queue
\* never holds an Event or an adapter-initiated Request.
C16_RouterRoutesByKind ==
    /\ [][C16_RouterStep]_vars
    /\ [](\A i \in 1..Len(client_queue) : client_queue[i].kind # "Response")
    /\ [](\A i \in 1..Len(server_tx) :
             /\ server_tx[i].kind # "Event"
             /\ server_tx[i].kind = "Request" => server_tx[i].back_ch # 0)

\* The Router has forwarded an Event and an adapter-initiated Request to the
\* application-facing queue and a Response to the Transport, which resolved
\* its call.
C16_Witness ==
    /\ \E i \in 1..Len(client_queue) : client_queue[i].kind = "Event"
    /\ \E i \in 1..Len(client_queue) : client_queue[i] = ReversePayload(1)
    /\ \E c \in CallIds : Resolved(c)

\* C17: update_thread_state_status(t, s), applied to any map the cache can
\* hold, returns a map over the same thread ids; when t has an entry that
\* entry differs from before in nothing but its status, which is s, and every
\* other entry is as before; when t has no entry the map is as before.
C17_StatusUpdateFrame ==
    \A t \in ThreadIds, s \in ThreadStatus :
        LET after == update_thread_state_status(thread_states, t, s) IN
          /\ DOMAIN after = DOMAIN thread_states
          /\ \A u \in DOMAIN after :
                IF u = t
                  THEN /\ after[u].status = s
                       /\ after[u].stack_frames = thread_states[u].stack_frames
                       /\ after[u].scopes = thread_states[u].scopes
                       /\ after[u].variables = thread_states[u].variables
                       /\ after[u].current_stack_frame_id =
                              thread_states[u].current_stack_frame_id
                  ELSE after[u] = thread_states[u]
          /\ t \notin DOMAIN thread_states => after = thread_states

\* A thread whose frames, scopes and variables were recorded has had its
\* status updated, next to a thread still in its default state and a thread
\* id that has no entry.
C17_Witness ==
    /\ \E t \in DOMAIN thread_states :
          /\ thread_states[t].status = "Ended"
          /\ thread_states[t].stack_frames = <<1>>
          /\ thread_states[t].scopes # <<>>
          /\ thread_states[t].current_stack_frame_id = 1
    /\ \E u \in DOMAIN thread_states : thread_states[u] = DefaultThreadState
    /\ ThreadIds \ DOMAIN thread_states # {}

\* The protocol verb of each runtime control operation.
ProtocolVerb(op) ==
    CASE op = "resume" -> "continue"
      [] op = "step_over" -> "next"
      [] op = "step_in" -> "stepIn"
      [] op = "step_out" -> "stepOut"
      [] op = "step_back" -> "stepBack"
      [] op = "pause" -> "pause"
      [] op = "restart" -> "restart"

\* C18 (as claimed): a call of a runtime control operation submits one
\* Request, whose command is the protocol verb of the operation, and the
\* Requests of two different operations never carry the same command.
C18_EachOpSendsOwnVerb ==
    /\ \A c \in CallIds :
          Cardinality({i \in SentRequests : server_tx[i].back_ch = c}) <= 1
    /\ \A i \in SentRequests :
          CallOf(i).op \in RuntimeOps =>
              server_tx[i].command = ProtocolVerb(CallOf(i).op)
    /\ \A i, j \in SentRequests :
          ( /\ CallOf(i).op \in RuntimeOps
            /\ CallOf(j).op \in RuntimeOps
            /\ CallOf(i).op # CallOf(j).op )
          => server_tx[i].command # server_tx[j].command

\* A turn of the Router that takes a payload from the inbound queue.
RouterTakes ==
    /\ router_pc = "running"
    /\ server_rx # <<>>
    /\ server_rx' = Tail(server_rx)

\* C19: when the consumer of the application-facing queue is gone, the turn of
\* the Router that takes an Event or an adapter-initiated Request drops it
\* (the failure is logged) and leaves the Router running; the Router is then
\* never stopped with payloads left to relay, and the turn that takes a
\* Response still appends it to the Transport's outbound queue.  No request()
\* call is in flight once the consumer is gone, and a suspended call whose
\* Response the Transport has delivered can always return.
C19_FailedForwardKeepsRelaying ==
    /\ [][ (RouterTakes /\ ~ClientRxAlive) =>
             LET p == Head(server_rx) IN
               /\ router_pc' = "running"
               /\ IF p.kind = "Response"
                    THEN /\ server_tx' = Append(server_tx, p)
                         /\ undelivered' = undelivered
                    ELSE /\ server_tx' = server_tx
                         /\ undelivered' = undelivered + 1
               /\ client_queue' = client_queue ]_vars
    /\ [](undelivered > 0 => router_pc = "running")
    /\ [](server_rx # <<>> => ENABLED HandleRecv)
    /\ [](~ClientRxAlive => \A c \in CallIds : ~InFlight(c))
    /\ [](\A c \in CallIds : InFlight(c) /\ Resolved(c) => ENABLED RequestRecv(c))

\* The client is gone, the Router has dropped an Event it could not hand over
\* and is still running, and the payload that arrived behind that Event, which
\* it takes next, is the Response to a call made while the client existed.
C19_Witness ==
    /\ ~ClientRxAlive
    /\ undelivered >= 1
    /\ n_events = 1 /\ n_reverse = 0
    /\ router_pc = "running"
    /\ server_rx # <<>>
    /\ Head(server_rx).kind = "Response"
    /\ Head(server_rx).request_seq = calls[1].seq

\* C20: once the inbound queue is closed the Router eventually returns, and
\* it returns only with the inbound queue drained; a running event loop then
\* eventually stops, and it returns Ok only when the Router has returned, the
\* application-facing queue is drained and every Event that had arrived was
\* handed to the handler, in order; with only Events queued the loop does
\* return Ok unless the application goes away (and the loop fails).
C20_ShutdownDrains ==
    /\ (~transport_open) ~> (router_pc = "done")
    /\ [](router_pc = "done" => ~transport_open /\ server_rx = <<>>)
    /\ (loop_pc = "running" /\ ~transport_open) ~> (loop_pc # "running")
    /\ [](loop_pc = "done" =>
            /\ router_pc = "done"
            /\ client_queue = <<>>
            /\ handled = arrived)
    /\ (loop_pc = "running" /\ ~transport_open /\ n_reverse = 0)
          ~> (loop_pc = "done" \/ ~cx_alive)
    /\ [](loop_pc = "failed" => ~cx_alive)
    /\ [](loop_pc = "panicked" => n_reverse > 0)

\* The connection was lost, the Router has returned and the event loop has
\* returned Ok after handing both Events to the handler.
C20_Witness ==
    /\ ~transport_open
    /\ router_pc = "done"
    /\ loop_pc = "done"
    /\ handled = <<1, 2>>

====
